---- MODULE Spec2Model ----
(***************************************************************************)
(* Model of the launcher (src/client/src/launcher.rs): Launcher::start     *)
(* creates a temporary handshake file, forks, the forked process runs the  *)
(* command with `--port-filename <path>` and the parent polls the file in  *)
(* wait_for_port until its last line is EOF and a `sock=` line parses.     *)
(*                                                                         *)
(* Text is modelled as sequences of one-character strings, so that         *)
(* str::lines, str::split_once and str::parse::<i32> are computed on the   *)
(* characters the way the standard library computes them.                  *)
(***************************************************************************)
EXTENDS Integers, Sequences, FiniteSets, TLC

\* ------------------------------------------------------------------ bounds

\* Largest number of lines the launched command writes to the handshake file.
MaxLines == 3

\* Largest number of lines a command writes when two calls run concurrently.
MaxLinesTwo == 2

\* Largest number of lines the command writes in the runs in which the
\* parent's progress is followed.
MaxLinesLive == 3

\* Largest number of add_metric / add_timestamp calls on the Metrics value,
\* and of print_json calls.
MaxCalls == 3
MaxPrints == 1

\* --------------------------------------------------------------- constants

\* i32::MAX and i32::MIN, the range of the return type of wait_for_port.
I32Max == 2147483647
I32Min == -2147483647 - 1

Calls == {1, 2}
\* The names the temporary-file generator draws from.
Paths == {".tmpA", ".tmpB"}
NoPath == ""
NoFile == 0

NL == "\n"
CR == "\r"

EOFLine == <<"E", "O", "F">>
SockKey == <<"s", "o", "c", "k">>
PortFilenameFlag == "--port-filename"

\* Lines the launched command (an opaque executable) may write, each ended
\* by "\n" and written one character at a time: ports in and out of the i32
\* range, a negative and an unparsable value, other key=value and plain
\* text, the sentinel and the empty line.
CandLines ==
  { <<"s", "o", "c", "k", "=", "5">>,
    <<"s", "o", "c", "k", "=", "-", "1">>,
    <<"s", "o", "c", "k", "=", "x">>,
    <<"s", "o", "c", "k", "=", "2", "1", "4", "7", "4", "8", "3", "6", "4", "7">>,
    <<"s", "o", "c", "k", "=", "2", "1", "4", "7", "4", "8", "3", "6", "4", "8">>,
    <<"a", "=", "b">>,
    <<"h", "i">>,
    EOFLine,
    <<>> }

\* Lines written by the command of call i when two calls run concurrently:
\* each command announces its own port.
CandLinesTwo(i) ==
  IF i = 1 THEN { <<"s", "o", "c", "k", "=", "5">>, EOFLine }
           ELSE { <<"s", "o", "c", "k", "=", "6">>, EOFLine }

\* Lines the command writes in the runs in which the parent's progress is
\* followed: a port, a negative and an unparsable value, another key=value
\* line and the sentinel.
CandLinesLive ==
  { <<"s", "o", "c", "k", "=", "5">>,
    <<"s", "o", "c", "k", "=", "-", "1">>,
    <<"s", "o", "c", "k", "=", "x">>,
    <<"a", "=", "b">>,
    EOFLine }

\* ------------------------------------------------------- string functions

\* char::to_digit(10)
ToDigit(ch) ==
  CASE ch = "0" -> 0 [] ch = "1" -> 1 [] ch = "2" -> 2 [] ch = "3" -> 3
    [] ch = "4" -> 4 [] ch = "5" -> 5 [] ch = "6" -> 6 [] ch = "7" -> 7
    [] ch = "8" -> 8 [] ch = "9" -> 9 [] OTHER -> -1

\* str::split_inclusive('\n'): the pieces of s, each ending with its "\n",
\* the last one possibly without; the empty string has no piece.
RECURSIVE SplitInclusive(_, _, _)
SplitInclusive(s, k, piece) ==
  IF k > Len(s) THEN (IF piece = <<>> THEN <<>> ELSE <<piece>>)
  ELSE IF s[k] = NL THEN <<Append(piece, NL)>> \o SplitInclusive(s, k + 1, <<>>)
  ELSE SplitInclusive(s, k + 1, Append(piece, s[k]))

\* The map of str::lines: strip the "\n" ending, and a "\r" before it.
StripLineEnding(piece) ==
  IF piece # <<>> /\ piece[Len(piece)] = NL
  THEN LET l == SubSeq(piece, 1, Len(piece) - 1)
       IN IF l # <<>> /\ l[Len(l)] = CR THEN SubSeq(l, 1, Len(l) - 1) ELSE l
  ELSE piece

\* A variant of Lines that splits at every "\n" (split('\n') in place of
\* lines): a text that ends with "\n" gets an empty last line.
LinesKeepEmptyTail(s) ==
  LET pieces == SplitInclusive(s, 1, <<>>)
      ls == [k \in 1..Len(pieces) |-> StripLineEnding(pieces[k])]
  IN IF s # <<>> /\ s[Len(s)] = NL THEN Append(ls, <<>>) ELSE ls

\* contents.lines().collect::<Vec<_>>()
Lines(s) ==
  LET pieces == SplitInclusive(s, 1, <<>>)
  IN [k \in 1..Len(pieces) |-> StripLineEnding(pieces[k])]

\* item.split_once("="): None, or the text before and after the first "=".
SplitOnce(item) ==
  IF \E k \in 1..Len(item) : item[k] = "="
  THEN LET k == CHOOSE j \in 1..Len(item) :
                  item[j] = "=" /\ \A h \in 1..(j - 1) : item[h] # "="
       IN [some |-> TRUE, param |-> SubSeq(item, 1, k - 1),
           val |-> SubSeq(item, k + 1, Len(item))]
  ELSE [some |-> FALSE, param |-> <<>>, val |-> <<>>]

\* The digit loop of i32::from_str_radix(_, 10): checked_mul(10), then
\* checked_add / checked_sub of the digit; any overflow or non-digit is Err.
RECURSIVE ParseDigits(_, _, _, _)
ParseDigits(s, k, acc, positive) ==
  IF k > Len(s) THEN [ok |-> TRUE, v |-> acc]
  ELSE LET d == ToDigit(s[k])
       IN IF d < 0 THEN [ok |-> FALSE, v |-> 0]
          ELSE IF positive
               THEN IF acc > I32Max \div 10 \/ acc * 10 > I32Max - d
                    THEN [ok |-> FALSE, v |-> 0]
                    ELSE ParseDigits(s, k + 1, acc * 10 + d, positive)
               ELSE IF acc < -(I32Max \div 10) \/ acc * 10 < I32Min + d
                    THEN [ok |-> FALSE, v |-> 0]
                    ELSE ParseDigits(s, k + 1, acc * 10 - d, positive)

\* A variant of ParseI32 that turns a parse error into 0 (unwrap_or_default
\* in place of unwrap).
ParseI32OrZero(val) ==
  LET r == IF val = <<>> THEN [ok |-> FALSE, v |-> 0]
           ELSE IF Len(val) = 1 /\ val[1] \in {"+", "-"} THEN [ok |-> FALSE, v |-> 0]
           ELSE IF val[1] = "+" THEN ParseDigits(val, 2, 0, TRUE)
           ELSE IF val[1] = "-" THEN ParseDigits(val, 2, 0, FALSE)
           ELSE ParseDigits(val, 1, 0, TRUE)
  IN IF r.ok THEN r ELSE [ok |-> TRUE, v |-> 0]

\* val.parse::<i32>(): Err on the empty string and on a lone sign; one
\* leading "+" or "-" is accepted; the rest must be decimal digits.
ParseI32(val) ==
  IF val = <<>> THEN [ok |-> FALSE, v |-> 0]
  ELSE IF Len(val) = 1 /\ val[1] \in {"+", "-"} THEN [ok |-> FALSE, v |-> 0]
  ELSE IF val[1] = "+" THEN ParseDigits(val, 2, 0, TRUE)
  ELSE IF val[1] = "-" THEN ParseDigits(val, 2, 0, FALSE)
  ELSE ParseDigits(val, 1, 0, TRUE)

\* -------------------------------------------------- one poll of the file

\* A variant of LastIsEOF that accepts the sentinel on any line
\* (lines.contains in place of lines.last).
AnyIsEOF(lines) == \E k \in 1..Len(lines) : lines[k] = EOFLine

\* lines.last().copied() == Some("EOF")
LastIsEOF(lines) == lines # <<>> /\ lines[Len(lines)] = EOFLine

\* param == "sock"
IsSockParam(param) == param = SockKey

\* A variant of ScanLines that expects the sock line at the head of the
\* record and looks at no other line.
ScanFirstLineOnly(lines, k) ==
  IF lines = <<>> THEN [kind |-> "retry", v |-> 0]
  ELSE LET sp == SplitOnce(lines[1])
       IN IF sp.some /\ IsSockParam(sp.param)
          THEN LET r == ParseI32(sp.val)
               IN IF r.ok THEN [kind |-> "return", v |-> r.v]
                          ELSE [kind |-> "panic", v |-> 0]
          ELSE [kind |-> "retry", v |-> 0]

\* A variant of ScanLines in which the last sock line decides (the loop
\* overwrites the port and returns after it).
ScanLastSockWins(lines, k) ==
  LET socks == { j \in k..Len(lines) :
                   SplitOnce(lines[j]).some /\ IsSockParam(SplitOnce(lines[j]).param) }
  IN IF socks = {} THEN [kind |-> "retry", v |-> 0]
     ELSE LET j == CHOOSE h \in socks : \A g \in socks : g <= h
              r == ParseI32(SplitOnce(lines[j]).val)
          IN IF r.ok THEN [kind |-> "return", v |-> r.v]
                     ELSE [kind |-> "panic", v |-> 0]

\* A variant of ScanLines that treats a record without a sock line as
\* malformed and panics when the loop finds none.
ScanMissingSockPanics(lines, k) ==
  LET socks == { j \in k..Len(lines) :
                   SplitOnce(lines[j]).some /\ IsSockParam(SplitOnce(lines[j]).param) }
  IN IF socks = {} THEN [kind |-> "panic", v |-> 0]
     ELSE LET j == CHOOSE h \in socks : \A g \in socks : h <= g
              r == ParseI32(SplitOnce(lines[j]).val)
          IN IF r.ok THEN [kind |-> "return", v |-> r.v]
                     ELSE [kind |-> "panic", v |-> 0]

\* The for loop over the lines: the first item that splits at "=" with
\* param "sock" decides; its value is parsed and returned, or unwrap panics.
\* Without such an item the loop ends and the outer loop goes on.
RECURSIVE ScanLines(_, _)
ScanLines(lines, k) ==
  IF k > Len(lines) THEN [kind |-> "retry", v |-> 0]
  ELSE LET sp == SplitOnce(lines[k])
       IN IF sp.some /\ IsSockParam(sp.param)
          THEN LET r == ParseI32(sp.val)
               IN IF r.ok THEN [kind |-> "return", v |-> r.v]
                          ELSE [kind |-> "panic", v |-> 0]
          ELSE ScanLines(lines, k + 1)

\* A variant of PollOutcome without the test of the last line.
PollOutcomeNoSentinel(text) == ScanLines(Lines(text), 1)

\* The body of the loop of wait_for_port after the read.
PollOutcome(text) ==
  LET lines == Lines(text)
  IN IF LastIsEOF(lines) THEN ScanLines(lines, 1) ELSE [kind |-> "retry", v |-> 0]

\* ------------------------------------------------------------------ state

VARIABLES
  pc,        \* position of the parent in start / wait_for_port, per call
  path,      \* port_filename of the call (NoPath before the file is created)
  contents,  \* the local `contents` of wait_for_port: the latest read
  ret,       \* the value start returned in the parent
  cpc,       \* position of the forked process of the call
  cret,      \* the value start returned in the forked process
  cmd,       \* state of the launched command
  args,      \* the arguments the command was given
  cur,       \* rest of the line the command is writing, with its "\n"
  nlines,    \* number of lines the command has begun (0: it wrote nothing)
  fOwner,    \* per path: the call whose file is at that path, or NoFile
  fData,     \* per path: the characters of the file
  metrics,   \* Metrics.metrics: the BTreeMap, as its entries in key order
  calls,     \* the add_metric / add_timestamp calls made on the Metrics value
  out        \* the lines print_json has written to standard output

\* The state of the launcher and the state of the metrics reporter.
lvars == <<pc, path, contents, ret, cpc, cret, cmd, args, cur, nlines, fOwner, fData>>
mvars == <<metrics, calls, out>>
vars == <<lvars, mvars>>

Init ==
  /\ pc = [i \in Calls |-> "idle"]
  /\ path = [i \in Calls |-> NoPath]
  /\ contents = [i \in Calls |-> <<>>]
  /\ ret = [i \in Calls |-> 0]
  /\ cpc = [i \in Calls |-> "none"]
  /\ cret = [i \in Calls |-> 0]
  /\ cmd = [i \in Calls |-> "none"]
  /\ args = [i \in Calls |-> <<>>]
  /\ cur = [i \in Calls |-> <<>>]
  /\ nlines = [i \in Calls |-> 0]
  /\ fOwner = [p \in Paths |-> NoFile]
  /\ fData = [p \in Paths |-> <<>>]
  /\ metrics = <<>>
  /\ calls = <<>>
  /\ out = <<>>

\* Drop of the NamedTempFile: the file at the path is removed, by name.
DropPortFile(p) ==
  /\ fOwner' = [fOwner EXCEPT ![p] = NoFile]
  /\ fData' = [fData EXCEPT ![p] = <<>>]

\* NamedTempFile::new() succeeds: a name at which no file exists is taken
\* among those the generator draws (the file is created exclusively) and the
\* file is empty.
CreateTempFile(i, names) ==
  /\ pc[i] = "idle"
  /\ \E p \in names :
       /\ fOwner[p] = NoFile
       /\ fOwner' = [fOwner EXCEPT ![p] = i]
       /\ fData' = [fData EXCEPT ![p] = <<>>]
       /\ path' = [path EXCEPT ![i] = p]
  /\ pc' = [pc EXCEPT ![i] = "fork"]
  /\ UNCHANGED <<contents, ret, cpc, cret, cmd, args, cur, nlines>>
  /\ UNCHANGED mvars

\* NamedTempFile::new() fails: expect panics, before any fork.
CreateTempFileFails(i) ==
  /\ pc[i] = "idle"
  /\ pc' = [pc EXCEPT ![i] = "panic_tempfile"]
  /\ UNCHANGED <<path, contents, ret, cpc, cret, cmd, args, cur, nlines, fOwner, fData>>
  /\ UNCHANGED mvars

\* fork() returns Ok: the parent enters wait_for_port, the forked process
\* goes on to run the command.
ForkOk(i) ==
  /\ pc[i] = "fork"
  /\ pc' = [pc EXCEPT ![i] = "sleep"]
  /\ cpc' = [cpc EXCEPT ![i] = "spawn"]
  /\ UNCHANGED <<path, contents, ret, cret, cmd, args, cur, nlines, fOwner, fData>>
  /\ UNCHANGED mvars

\* fork() returns Err: "Fork failed" is printed and start returns the
\* trailing 0; the temporary file is dropped on the way out.
ForkErr(i) ==
  /\ pc[i] = "fork"
  /\ pc' = [pc EXCEPT ![i] = "returned"]
  /\ ret' = [ret EXCEPT ![i] = 0]
  /\ DropPortFile(path[i])
  /\ UNCHANGED <<path, contents, cpc, cret, cmd, args, cur, nlines>>
  /\ UNCHANGED mvars

\* A variant of ReadOk that empties the file it has read (the file opened
\* for writing with truncation, or consumed by the reader).
ReadOkTruncates(i) ==
  /\ pc[i] = "sleep"
  /\ fOwner[path[i]] # NoFile
  /\ contents' = [contents EXCEPT ![i] = fData[path[i]]]
  /\ fData' = [fData EXCEPT ![path[i]] = <<>>]
  /\ pc' = [pc EXCEPT ![i] = "scan"]
  /\ UNCHANGED <<path, ret, cpc, cret, cmd, args, cur, nlines, fOwner>>
  /\ UNCHANGED mvars

\* thread::sleep, then fs::read_to_string succeeds: the whole current
\* content of whatever file is at the path becomes `contents`.
ReadOk(i) ==
  /\ pc[i] = "sleep"
  /\ fOwner[path[i]] # NoFile
  /\ contents' = [contents EXCEPT ![i] = fData[path[i]]]
  /\ pc' = [pc EXCEPT ![i] = "scan"]
  /\ UNCHANGED <<path, ret, cpc, cret, cmd, args, cur, nlines, fOwner, fData>>
  /\ UNCHANGED mvars

\* A variant of ReadErr that swallows the error (unwrap_or_default in place
\* of expect): the poll goes on with an empty content.
ReadErrSwallowed(i) ==
  /\ pc[i] = "sleep"
  /\ fOwner[path[i]] = NoFile
  /\ pc' = [pc EXCEPT ![i] = "scan"]
  /\ contents' = [contents EXCEPT ![i] = <<>>]
  /\ UNCHANGED <<path, ret, cpc, cret, cmd, args, cur, nlines, fOwner, fData>>
  /\ UNCHANGED mvars

\* fs::read_to_string fails (no file at the path): expect panics and the
\* unwinding drops the temporary file.
ReadErr(i) ==
  /\ pc[i] = "sleep"
  /\ fOwner[path[i]] = NoFile
  /\ pc' = [pc EXCEPT ![i] = "panic_read"]
  /\ DropPortFile(path[i])
  /\ UNCHANGED <<path, contents, ret, cpc, cret, cmd, args, cur, nlines>>
  /\ UNCHANGED mvars

\* The rest of the loop body on the content just read: go round again,
\* return the port through start (dropping the file), or panic in unwrap.
Scan(i) ==
  /\ pc[i] = "scan"
  /\ LET o == PollOutcome(contents[i])
     IN CASE o.kind = "retry" ->
               /\ pc' = [pc EXCEPT ![i] = "sleep"]
               /\ UNCHANGED <<ret, fOwner, fData>>
          [] o.kind = "return" ->
               /\ pc' = [pc EXCEPT ![i] = "returned"]
               /\ ret' = [ret EXCEPT ![i] = o.v]
               /\ DropPortFile(path[i])
          [] o.kind = "panic" ->
               /\ pc' = [pc EXCEPT ![i] = "panic_parse"]
               /\ DropPortFile(path[i])
               /\ UNCHANGED ret
  /\ UNCHANGED <<path, contents, cpc, cret, cmd, args, cur, nlines>>
  /\ UNCHANGED mvars

\* A variant of SpawnOk that passes one more argument to the command.
SpawnOkExtraArg(i) ==
  /\ cpc[i] = "spawn"
  /\ cmd' = [cmd EXCEPT ![i] = "running"]
  /\ args' = [args EXCEPT ![i] = <<PortFilenameFlag, path[i], "--verbose">>]
  /\ cpc' = [cpc EXCEPT ![i] = "wait"]
  /\ UNCHANGED <<pc, path, contents, ret, cret, cur, nlines, fOwner, fData>>
  /\ UNCHANGED mvars

\* Command::new(command).arg("--port-filename").arg(port_filename).output()
\* starts the command; the forked process waits for it to finish.
SpawnOk(i) ==
  /\ cpc[i] = "spawn"
  /\ cmd' = [cmd EXCEPT ![i] = "running"]
  /\ args' = [args EXCEPT ![i] = <<PortFilenameFlag, path[i]>>]
  /\ cpc' = [cpc EXCEPT ![i] = "wait"]
  /\ UNCHANGED <<pc, path, contents, ret, cret, cur, nlines, fOwner, fData>>
  /\ UNCHANGED mvars

\* output() returns Err (the command cannot be started): the result is bound
\* to _command and ignored, the forked process falls out of the match, start
\* returns 0 in it and its copy of the temporary file is dropped.
SpawnErr(i) ==
  /\ cpc[i] = "spawn"
  /\ cmd' = [cmd EXCEPT ![i] = "failed"]
  /\ cpc' = [cpc EXCEPT ![i] = "returned"]
  /\ cret' = [cret EXCEPT ![i] = 0]
  /\ DropPortFile(path[i])
  /\ UNCHANGED <<pc, path, contents, ret, args, cur, nlines>>
  /\ UNCHANGED mvars

\* The command begins a line of its record in the file it was told.
CmdBeginLine(i, cands, maxl) ==
  /\ cmd[i] = "running"
  /\ fOwner[args[i][2]] = i
  /\ cur[i] = <<>>
  /\ nlines[i] < maxl
  /\ \E l \in cands :
       LET t == Append(l, NL)
       IN /\ fData' = [fData EXCEPT ![args[i][2]] = Append(@, Head(t))]
          /\ cur' = [cur EXCEPT ![i] = Tail(t)]
  /\ nlines' = [nlines EXCEPT ![i] = @ + 1]
  /\ UNCHANGED <<pc, path, contents, ret, cpc, cret, cmd, args, fOwner>>
  /\ UNCHANGED mvars

\* The command writes the next character of the line it has begun.
CmdContinueLine(i) ==
  /\ cmd[i] = "running"
  /\ fOwner[args[i][2]] = i
  /\ cur[i] # <<>>
  /\ fData' = [fData EXCEPT ![args[i][2]] = Append(@, Head(cur[i]))]
  /\ cur' = [cur EXCEPT ![i] = Tail(@)]
  /\ UNCHANGED <<pc, path, contents, ret, cpc, cret, cmd, args, nlines, fOwner>>
  /\ UNCHANGED mvars

\* The command ends (at any point of its writing) and its own state is gone:
\* output() returns in the forked process, which falls out of the match,
\* returns 0 from start and drops its copy of the temporary file.
CmdExit(i) ==
  /\ cmd[i] = "running"
  /\ cpc[i] = "wait"
  /\ cmd' = [cmd EXCEPT ![i] = "exited"]
  /\ cpc' = [cpc EXCEPT ![i] = "returned"]
  /\ cret' = [cret EXCEPT ![i] = 0]
  /\ cur' = [cur EXCEPT ![i] = <<>>]
  /\ DropPortFile(path[i])
  /\ UNCHANGED <<pc, path, contents, ret, args, nlines>>
  /\ UNCHANGED mvars

\* One start call.
Next ==
  \/ CreateTempFile(1, {".tmpA"})
  \/ CreateTempFileFails(1)
  \/ ForkOk(1)
  \/ ForkErr(1)
  \/ ReadOk(1)
  \/ ReadErr(1)
  \/ Scan(1)
  \/ SpawnOk(1)
  \/ SpawnErr(1)
  \/ CmdBeginLine(1, CandLines, MaxLines)
  \/ CmdContinueLine(1)
  \/ CmdExit(1)

Spec == Init /\ [][Next]_vars

\* One start call whose command writes records of a few kinds of lines.
NextLive ==
  \/ CreateTempFile(1, {".tmpA"})
  \/ CreateTempFileFails(1)
  \/ ForkOk(1)
  \/ ForkErr(1)
  \/ ReadOk(1)
  \/ ReadErr(1)
  \/ Scan(1)
  \/ SpawnOk(1)
  \/ SpawnErr(1)
  \/ CmdBeginLine(1, CandLinesLive, MaxLinesLive)
  \/ CmdContinueLine(1)
  \/ CmdExit(1)

\* That call with its parent scheduled: the polling loop of wait_for_port
\* sleeps 20 ms and goes on, so a read that stays possible is taken, and the
\* scan of the content read is a computation that ends. (Scan(1) is enabled
\* exactly when pc[1] = "scan" and every step of it leaves "scan", so the
\* last conjunct is WF_vars(Scan(1)), written without ENABLED.)
FairSpec ==
  /\ Init
  /\ [][NextLive]_vars
  /\ WF_vars(ReadOk(1))
  /\ WF_vars(ReadErr(1))
  /\ []<>(pc[1] # "scan")

\* Two start calls running concurrently (two Launcher instances).
NextTwo ==
  \E i \in Calls :
    \/ CreateTempFile(i, Paths)
    \/ CreateTempFileFails(i)
    \/ ForkOk(i)
    \/ ForkErr(i)
    \/ ReadOk(i)
    \/ ReadErr(i)
    \/ Scan(i)
    \/ SpawnOk(i)
    \/ SpawnErr(i)
    \/ CmdBeginLine(i, CandLinesTwo(i), MaxLinesTwo)
    \/ CmdContinueLine(i)
    \/ CmdExit(i)

SpecTwo == Init /\ [][NextTwo]_vars

\* ------------------------------------------------- the metrics reporter
\* (src/nvidia_gpu_stats/src/metrics.rs)

\* The key add_timestamp writes under.
TimestampKey == <<"_", "t", "i", "m", "e", "s", "t", "a", "m", "p">>

\* The keys given to add_metric: an upper-case and a lower-case name, and
\* the reserved name itself.
MetricKeys == { <<"Z">>, <<"a">>, TimestampKey }

\* The values given to add_metric (integers) and to add_timestamp (f64).
MetricInts == {1, 2}
TimestampFloats == {"7.0", "NaN"}

\* The byte of a character: String keys are ordered byte by byte.
Byte(ch) ==
  CASE ch = "Z" -> 90 [] ch = "_" -> 95 [] ch = "a" -> 97 [] ch = "e" -> 101
    [] ch = "i" -> 105 [] ch = "m" -> 109 [] ch = "p" -> 112 [] ch = "s" -> 115
    [] ch = "t" -> 116

\* Ord for String: a < b.
KeyLess(a, b) ==
  \/ Len(a) < Len(b) /\ SubSeq(b, 1, Len(a)) = a
  \/ \E k \in 1..Len(a) :
       /\ k <= Len(b)
       /\ SubSeq(a, 1, k - 1) = SubSeq(b, 1, k - 1)
       /\ Byte(a[k]) < Byte(b[k])

\* value.into() for an integer: a JSON number.
IntIntoValue(n) == [kind |-> "int", text |-> <<IF n = 1 THEN "1" ELSE "2">>]

\* value.into() for an f64: a JSON number, or null when it is not finite.
F64IntoValue(t) ==
  IF t = "NaN" THEN [kind |-> "null", text |-> <<"n", "u", "l", "l">>]
  ELSE [kind |-> "float", text |-> <<"7", ".", "0">>]

\* A variant of BTreeInsert that keeps the value a key already has
\* (entry(key).or_insert(value) in place of insert).
BTreeInsertKeepsFirst(m, k, v) ==
  IF \E j \in 1..Len(m) : m[j].key = k THEN m
  ELSE LET n == Cardinality({ j \in 1..Len(m) : KeyLess(m[j].key, k) })
       IN SubSeq(m, 1, n) \o <<[key |-> k, value |-> v]>> \o SubSeq(m, n + 1, Len(m))

\* BTreeMap::insert on the entries in key order: the value of a key that is
\* present is replaced, a new key goes to its place in the order.
BTreeInsert(m, k, v) ==
  IF \E j \in 1..Len(m) : m[j].key = k
  THEN [j \in 1..Len(m) |-> IF m[j].key = k THEN [key |-> k, value |-> v] ELSE m[j]]
  ELSE LET n == Cardinality({ j \in 1..Len(m) : KeyLess(m[j].key, k) })
       IN SubSeq(m, 1, n) \o <<[key |-> k, value |-> v]>> \o SubSeq(m, n + 1, Len(m))

\* serde_json::to_string of the map: {"key":value,...} in iteration order.
RECURSIVE JsonEntries(_, _)
JsonEntries(m, j) ==
  IF j > Len(m) THEN <<>>
  ELSE (IF j > 1 THEN <<",">> ELSE <<>>)
         \o <<"\"">> \o m[j].key \o <<"\"", ":">> \o m[j].value.text
         \o JsonEntries(m, j + 1)

ToJson(m) == <<"{">> \o JsonEntries(m, 1) \o <<"}">>

\* add_metric(key, value)
AddMetric(k, n) ==
  /\ Len(calls) < MaxCalls
  /\ metrics' = BTreeInsert(metrics, k, IntIntoValue(n))
  /\ calls' = Append(calls, [op |-> "add_metric", key |-> k, value |-> IntIntoValue(n)])
  /\ UNCHANGED out
  /\ UNCHANGED lvars

\* add_timestamp(timestamp): add_metric("_timestamp", timestamp)
AddTimestamp(t) ==
  /\ Len(calls) < MaxCalls
  /\ metrics' = BTreeInsert(metrics, TimestampKey, F64IntoValue(t))
  /\ calls' = Append(calls, [op |-> "add_timestamp", key |-> <<>>, value |-> F64IntoValue(t)])
  /\ UNCHANGED out
  /\ UNCHANGED lvars

\* print_json(): the map serialized on one line of standard output.
PrintJson ==
  /\ Len(out) < MaxPrints
  /\ out' = Append(out, ToJson(metrics))
  /\ UNCHANGED <<metrics, calls>>
  /\ UNCHANGED lvars

\* A Metrics value from Metrics::new() on, under any calls.
NextMetrics ==
  \/ \E k \in MetricKeys, n \in MetricInts : AddMetric(k, n)
  \/ \E t \in TimestampFloats : AddTimestamp(t)
  \/ PrintJson

SpecMetrics == Init /\ [][NextMetrics]_vars

\* ---------------------------------------------- the handshake record, read
\* off the characters of the text (positions, not the split into lines)

\* The text without its final "\n", if it has one.
Unterminated(c) ==
  IF c # <<>> /\ c[Len(c)] = NL THEN SubSeq(c, 1, Len(c) - 1) ELSE c

\* A line begins at position k of c.
LineStartsAt(c, k) == k = 1 \/ c[k - 1] = NL

\* The last line of the text is exactly EOF.
TextLastLineIsEOF(c) ==
  LET t == Unterminated(c)
      n == Len(t)
  IN /\ n >= 3
     /\ SubSeq(t, n - 2, n) = EOFLine
     /\ LineStartsAt(t, n - 2)

\* The positions at which a line with key `sock` begins.
SockStarts(c) ==
  { k \in 1..Len(c) :
      /\ LineStartsAt(c, k)
      /\ k + 4 <= Len(c)
      /\ SubSeq(c, k, k + 4) = <<"s", "o", "c", "k", "=">> }

\* The value of the `sock` line that begins at k: up to the end of the line.
SockValueAt(c, k) ==
  LET ends == { e \in (k + 4)..Len(c) :
                  /\ \A h \in (k + 5)..e : c[h] # NL
                  /\ (e = Len(c) \/ c[e + 1] = NL) }
  IN SubSeq(c, k + 5, CHOOSE e \in ends : TRUE)

FirstSockStart(c) == CHOOSE k \in SockStarts(c) : \A h \in SockStarts(c) : k <= h

FirstSockValue(c) == SockValueAt(c, FirstSockStart(c))

\* v is a non-negative integer written in decimal digits.
IsDecimal(v) == v # <<>> /\ \A k \in 1..Len(v) : ToDigit(v[k]) >= 0

\* v is an integer numeral: decimal digits after an optional sign.
IsIntegerText(v) ==
  \/ IsDecimal(v)
  \/ Len(v) >= 2 /\ v[1] \in {"+", "-"} /\ IsDecimal(Tail(v))

RECURSIVE StripZeros(_)
StripZeros(v) == IF v # <<>> /\ v[1] = "0" THEN StripZeros(Tail(v)) ELSE v

I32MaxText == <<"2", "1", "4", "7", "4", "8", "3", "6", "4", "7">>

\* The decimal numeral v denotes a number that is at most 2147483647,
\* decided on the digits.
AtMostI32Max(v) ==
  LET w == StripZeros(v)
  IN \/ Len(w) < Len(I32MaxText)
     \/ /\ Len(w) = Len(I32MaxText)
        /\ \/ w = I32MaxText
           \/ \E k \in 1..Len(w) :
                /\ ToDigit(w[k]) < ToDigit(I32MaxText[k])
                /\ \A h \in 1..(k - 1) : w[h] = I32MaxText[h]

\* The number a decimal numeral denotes.
RECURSIVE DecValue(_)
DecValue(v) ==
  IF v = <<>> THEN 0
  ELSE DecValue(SubSeq(v, 1, Len(v) - 1)) * 10 + ToDigit(v[Len(v)])

\* The parent of call i takes the step that ends one poll: it leaves the
\* scan of the content it has just read.
PollEnds(i) == pc[i] = "scan" /\ pc'[i] # "scan"

\* The content read by call i is a complete record whose first `sock` line
\* has a decimal value.
ReadsDecimalRecord(i) ==
  /\ TextLastLineIsEOF(contents[i])
  /\ SockStarts(contents[i]) # {}
  /\ IsDecimal(FirstSockValue(contents[i]))

\* ------------------------------------------------------------------ claims

\* C1 as stated: a poll that reads a text whose last line is exactly EOF and
\* whose first `sock=` line is `sock=N`, N any non-negative integer in
\* decimal digits, makes start return exactly N in the parent.
C1_ReturnsAnyDecimal ==
  [][\A i \in Calls :
       (PollEnds(i) /\ ReadsDecimalRecord(i))
         => (pc'[i] = "returned" /\ ret'[i] = DecValue(FirstSockValue(contents[i])))]_vars

\* C1 amended: the same, for N that is at most i32::MAX (2147483647), the
\* range of the i32 the value is parsed into; the position of the sock line
\* and the other lines do not matter.
C1_ReturnsDecimalInRange ==
  [][\A i \in Calls :
       (PollEnds(i) /\ ReadsDecimalRecord(i) /\ AtMostI32Max(FirstSockValue(contents[i])))
         => (pc'[i] = "returned" /\ ret'[i] = DecValue(FirstSockValue(contents[i])))]_vars

\* C1 witness: start has returned 5 from a record in which the sock line is
\* neither the first line nor alone: a key=value line or plain text precedes.
C1_Witness ==
  /\ pc[1] = "returned"
  /\ ReadsDecimalRecord(1)
  /\ FirstSockStart(contents[1]) > 1
  /\ ret[1] = 5

\* C2: the poll of a text whose last line is not exactly EOF neither returns
\* nor fails: the parent goes back to sleep and nothing is returned, whatever
\* the text holds (a sock line without a sentinel, a truncated value).
C2_IncompleteIgnored ==
  [][\A i \in Calls :
       (PollEnds(i) /\ ~TextLastLineIsEOF(contents[i]))
         => (pc'[i] = "sleep" /\ ret'[i] = ret[i])]_vars

\* C2 witness: the parent has read `sock=5` and a newline with no sentinel
\* after it, and is waiting for its next poll.
C2_Witness ==
  /\ pc[1] = "sleep"
  /\ contents[1] = <<"s", "o", "c", "k", "=", "5", NL>>
  /\ cpc[1] = "wait"

\* An EOF line of the text is followed by a further line (possibly empty,
\* possibly unterminated when not empty).
EOFLineFollowed(c) ==
  \E k \in 1..Len(c) :
    /\ LineStartsAt(c, k)
    /\ k + 4 <= Len(c)
    /\ SubSeq(c, k, k + 3) = Append(EOFLine, NL)

\* C3 as stated: a text in which an EOF line is followed by any further line
\* is treated as incomplete: the poll neither returns nor fails.
C3_AnyTrailingLineIncomplete ==
  [][\A i \in Calls :
       (PollEnds(i) /\ EOFLineFollowed(contents[i])) => pc'[i] = "sleep"]_vars

\* C3 amended: a text in which an EOF line is followed by further lines is
\* treated as incomplete unless its last line is again exactly EOF.
C3_TrailingLineIncomplete ==
  [][\A i \in Calls :
       (PollEnds(i) /\ EOFLineFollowed(contents[i]) /\ ~TextLastLineIsEOF(contents[i]))
         => (pc'[i] = "sleep" /\ ret'[i] = ret[i])]_vars

\* C3 witness: the parent has polled `sock=5`, `EOF` and a trailing line
\* after the sentinel, and is waiting for its next poll.
C3_Witness ==
  /\ pc[1] = "sleep"
  /\ EOFLineFollowed(contents[1])
  /\ SockStarts(contents[1]) = {1}
  /\ FirstSockValue(contents[1]) = <<"5">>
  /\ contents[1][Len(contents[1])] = NL

\* C4: when a complete record has several lines with key `sock`, the first
\* in file order alone decides: the poll returns its value when it parses and
\* panics when it does not, whatever the later sock lines hold.
C4_FirstSockWins ==
  [][\A i \in Calls :
       (PollEnds(i) /\ TextLastLineIsEOF(contents[i])
          /\ Cardinality(SockStarts(contents[i])) >= 2)
         => LET r == ParseI32(FirstSockValue(contents[i]))
            IN IF r.ok THEN pc'[i] = "returned" /\ ret'[i] = r.v
                       ELSE pc'[i] = "panic_parse" /\ ret'[i] = ret[i]]_vars

\* C4 witness: start has returned the 5 of the first sock line of a record
\* whose later sock line has another value.
C4_Witness ==
  /\ pc[1] = "returned"
  /\ ret[1] = 5
  /\ TextLastLineIsEOF(contents[1])
  /\ \E k \in SockStarts(contents[1]) :
       /\ k # FirstSockStart(contents[1])
       /\ SockValueAt(contents[1], k) # FirstSockValue(contents[1])

\* C5: once the command has failed to start, the parent's start has failed:
\* the parent is not in the polling loop and has not returned a value.
C5_SpawnFailureAborts ==
  \A i \in Calls : cmd[i] = "failed" => pc[i] \notin {"sleep", "scan", "returned"}

\* C6: an integer returned by start in the parent was parsed from the first
\* sock line of a complete record read from the call's handshake file.
C6_ReturnsOnlyParsedPort ==
  \A i \in Calls :
    pc[i] = "returned"
      => /\ TextLastLineIsEOF(contents[i])
         /\ SockStarts(contents[i]) # {}
         /\ ParseI32(FirstSockValue(contents[i])).ok
         /\ ret[i] = ParseI32(FirstSockValue(contents[i])).v

\* The call is between the creation of its file and the end of start in the
\* parent.
Running(i) == pc[i] \in {"fork", "sleep", "scan"}

\* The port the command of call i announces when two calls run concurrently.
OwnPort(i) == IF i = 1 THEN 5 ELSE 6

\* C7: two calls running at the same time have distinct handshake paths,
\* each command is given its own call's path, and a call that returns from
\* its polling returns the port its own command wrote.
C7_CallsIsolated ==
  /\ (Running(1) /\ Running(2)) => path[1] # path[2]
  /\ \A i \in Calls : args[i] # <<>> => args[i] = <<PortFilenameFlag, path[i]>>
  /\ \A i \in Calls : (pc[i] = "returned" /\ cpc[i] # "none") => ret[i] = OwnPort(i)

\* C8: every value start returns in the parent is non-negative.
C8_ReturnsNonNegative ==
  \A i \in Calls : pc[i] = "returned" => ret[i] >= 0

\* C9: the poll of a complete record whose first sock line has a value that
\* is not an integer numeral (or one beyond the i32 range) is fatal: the
\* parent panics on that poll, returns nothing and does not poll again.
C9_UnparsableIsFatal ==
  [][\A i \in Calls :
       /\ (PollEnds(i) /\ TextLastLineIsEOF(contents[i]) /\ SockStarts(contents[i]) # {}
             /\ LET v == FirstSockValue(contents[i])
                IN ~IsIntegerText(v) \/ (IsDecimal(v) /\ ~AtMostI32Max(v)))
            => (pc'[i] = "panic_parse" /\ ret'[i] = ret[i])
       /\ pc[i] = "panic_parse" => pc'[i] = "panic_parse"]_vars

\* C9 witness: the parent has panicked on a complete record whose first sock
\* line is `sock=x`.
C9_Witness ==
  /\ pc[1] = "panic_parse"
  /\ TextLastLineIsEOF(contents[1])
  /\ SockStarts(contents[1]) # {}
  /\ FirstSockValue(contents[1]) = <<"x">>

\* C10: a poll that finds no readable file at the path is fatal: the parent
\* panics at that iteration, returns nothing and never polls again.
C10_ReadFailureIsFatal ==
  [][\A i \in Calls :
       /\ (pc[i] = "sleep" /\ pc'[i] # "sleep" /\ fOwner[path[i]] = NoFile)
            => (pc'[i] = "panic_read" /\ ret'[i] = ret[i])
       /\ pc[i] = "panic_read" => pc'[i] = "panic_read"]_vars

\* C10 witness: the parent has panicked on a read, after at least one
\* successful poll of the file.
C10_Witness ==
  /\ pc[1] = "panic_read"
  /\ contents[1] # <<>>
  /\ fOwner[path[1]] = NoFile

\* C12: when the launched command ends before it has written anything, the
\* parent's start neither returns nor fails: it stays in its polling loop.
C12_NoRecordBlocksForever ==
  \A i \in Calls :
    (cmd[i] = "exited" /\ nlines[i] = 0) => pc[i] \in {"sleep", "scan"}

\* C13: the poll of a complete record (last line EOF) without any line of
\* key `sock` neither returns nor fails: the parent goes on to its next
\* poll, every time it reads such a content.
C13_MissingSockKeepsPolling ==
  [][\A i \in Calls :
       (PollEnds(i) /\ TextLastLineIsEOF(contents[i]) /\ SockStarts(contents[i]) = {})
         => (pc'[i] = "sleep" /\ ret'[i] = ret[i])]_vars

\* C13 witness: the parent has polled a record that has a key=value line and
\* the sentinel but no sock line, and is waiting for its next poll.
C13_Witness ==
  /\ pc[1] = "sleep"
  /\ TextLastLineIsEOF(contents[1])
  /\ SockStarts(contents[1]) = {}
  /\ \E k \in 1..Len(contents[1]) : contents[1][k] = "="

\* C14: the process created by the fork never returns from start into the
\* caller's code.
C14_ForkedNeverReturns ==
  \A i \in Calls : cpc[i] # "returned"

\* C15: while the parent of a call is polling, the handshake file the call
\* created is at its path.
C15_FileExistsWhilePolling ==
  \A i \in Calls : pc[i] \in {"sleep", "scan"} => fOwner[path[i]] = i

\* C16: a command that was started was given exactly the two arguments
\* `--port-filename` and the path of the file its own call created, which
\* is the path the parent polls.
C16_ArgsArePortFilename ==
  \A i \in Calls :
    cmd[i] \in {"running", "exited"} => args[i] = <<PortFilenameFlag, path[i]>>

\* C16 witness: the command runs, has written to the path it was given, and
\* the parent has read those characters from the path it polls.
C16_Witness ==
  /\ cmd[1] = "running"
  /\ pc[1] = "scan"
  /\ contents[1] # <<>>
  /\ contents[1] = fData[args[1][2]]

\* A process of call i leaves start in this step: the parent returns or
\* panics, or the forked process returns.
Finishes(i) ==
  \/ pc[i] \in {"fork", "sleep", "scan"}
       /\ pc'[i] \in {"returned", "panic_read", "panic_parse"}
  \/ cpc[i] \in {"spawn", "wait"} /\ cpc'[i] = "returned"

\* C17: a step of the parent's polling leaves every file as it is, unless
\* start finishes in it, and then the call's file is removed; a file that
\* stays in place changes only by the running command appending to it; a
\* file is removed only in a step in which a process of its call leaves
\* start; a file is empty when it is created.
C17_ParentOnlyReads ==
  [][/\ \A i \in Calls :
          (pc[i] \in {"sleep", "scan"} /\ pc'[i] # pc[i])
            => \A p \in Paths :
                 \/ fData'[p] = fData[p] /\ fOwner'[p] = fOwner[p]
                 \/ p = path[i] /\ Finishes(i) /\ fOwner'[p] = NoFile
     /\ \A p \in Paths :
          /\ (fOwner[p] # NoFile /\ fOwner'[p] # NoFile /\ fData'[p] # fData[p])
               => \E i \in Calls :
                    /\ cmd[i] = "running" /\ args[i][2] = p /\ pc'[i] = pc[i]
                    /\ Len(fData'[p]) = Len(fData[p]) + 1
                    /\ SubSeq(fData'[p], 1, Len(fData[p])) = fData[p]
          /\ (fOwner[p] # NoFile /\ fOwner'[p] = NoFile)
               => \E i \in Calls : path[i] = p /\ Finishes(i)
          /\ (fOwner[p] = NoFile /\ fOwner'[p] # NoFile) => fData'[p] = <<>>]_vars

\* C17 witness: the parent has polled a file that has content, has gone
\* round its loop, and the file still holds what it read.
C17_Witness ==
  /\ pc[1] = "sleep"
  /\ contents[1] # <<>>
  /\ fOwner[path[1]] = 1
  /\ fData[path[1]] = contents[1]

\* The numeral v parses as an i32: decimal digits, after an optional "-",
\* that denote at most 2147483647.
IsPortNumeral(v) ==
  \/ IsDecimal(v) /\ AtMostI32Max(v)
  \/ Len(v) >= 2 /\ v[1] = "-" /\ IsDecimal(Tail(v)) /\ AtMostI32Max(Tail(v))

\* The number the numeral denotes.
NumeralValue(v) == IF v[1] = "-" THEN 0 - DecValue(Tail(v)) ELSE DecValue(v)

\* The file of call i is in place and holds a complete record whose first
\* sock line parses, while the parent is in its polling loop.
CompleteRecordInFile(i) ==
  /\ pc[i] \in {"sleep", "scan"}
  /\ fOwner[path[i]] = i
  /\ TextLastLineIsEOF(fData[path[i]])
  /\ SockStarts(fData[path[i]]) # {}
  /\ IsPortNumeral(FirstSockValue(fData[path[i]]))

\* start has returned, in the parent, the port of the record it read.
ReturnedThePort(i) ==
  /\ pc[i] = "returned"
  /\ TextLastLineIsEOF(contents[i])
  /\ SockStarts(contents[i]) # {}
  /\ ret[i] = NumeralValue(FirstSockValue(contents[i]))

CallKey(c) == IF c.op = "add_timestamp" THEN TimestampKey ELSE c.key

\* The calls made so far that wrote under key k.
CallsFor(log, k) == { j \in 1..Len(log) : CallKey(log[j]) = k }

\* The value of the last call that wrote under key k.
LastValueFor(log, k) ==
  log[CHOOSE j \in CallsFor(log, k) : \A h \in CallsFor(log, k) : h <= j].value

\* The accumulated set holds one entry per key written, with the value of
\* the last call for it, and no other entry.
OneEntryPerKey(m, log) ==
  /\ \A k \in MetricKeys :
       LET at == { j \in 1..Len(m) : m[j].key = k }
       IN IF CallsFor(log, k) = {} THEN at = {}
          ELSE /\ Cardinality(at) = 1
               /\ \A j \in at : m[j].value = LastValueFor(log, k)
  /\ \A j \in 1..Len(m) : m[j].key \in MetricKeys

\* The keys of a printed line, in the order they appear: the texts between
\* the first and second quote, the third and fourth, and so on.
QuotesOf(line) == { q \in 1..Len(line) : line[q] = "\"" }

NthQuote(line, n) ==
  CHOOSE q \in QuotesOf(line) : Cardinality({ h \in QuotesOf(line) : h < q }) = n - 1

PrintedKeys(line) ==
  [j \in 1..(Cardinality(QuotesOf(line)) \div 2) |->
     SubSeq(line, NthQuote(line, 2 * j - 1) + 1, NthQuote(line, 2 * j) - 1)]

\* The value printed after the j-th key: from after the colon up to the
\* next comma or the closing brace.
PrintedValue(line, j) ==
  LET from == NthQuote(line, 2 * j) + 2
      to == CHOOSE e \in from..Len(line) :
              /\ line[e + 1] \in {",", "}"}
              /\ \A h \in from..e : line[h] \notin {",", "}"}
  IN SubSeq(line, from, to)

\* The line is one JSON object holding, in ascending key order, each key
\* written by the calls with the value of the last call for it.
PrintedInKeyOrder(line, log) ==
  LET keys == PrintedKeys(line)
  IN /\ line[1] = "{" /\ line[Len(line)] = "}"
     /\ \A j \in 1..(Len(keys) - 1) : KeyLess(keys[j], keys[j + 1])
     /\ { keys[j] : j \in 1..Len(keys) } = { k \in MetricKeys : CallsFor(log, k) # {} }
     /\ \A j \in 1..Len(keys) : PrintedValue(line, j) = LastValueFor(log, keys[j]).text

\* C18: after every add_metric or add_timestamp call the set holds exactly
\* one entry per distinct key with the value of the last call for that key
\* (add_timestamp counting as a call for `_timestamp`), and every print_json
\* emits these entries in ascending key order.
C18_LastValuePerKeySorted ==
  [][/\ OneEntryPerKey(metrics', calls')
     /\ out' # out => PrintedInKeyOrder(out'[Len(out')], calls')]_vars

\* C18 witness: three keys were written, the timestamp was overwritten by a
\* user metric named `_timestamp` or the other way round, and the set was
\* printed.
C18_Witness ==
  /\ Len(out) = 1
  /\ Len(PrintedKeys(out[1])) >= 2
  /\ \E j, h \in 1..Len(calls) :
       /\ j < h
       /\ calls[j].op # calls[h].op
       /\ CallKey(calls[j]) = TimestampKey
       /\ CallKey(calls[h]) = TimestampKey

====
